---- MODULE Spec2Model ----
(***************************************************************************)
(* State-machine model of src/benchmark.ts: the three pagination drivers   *)
(* (benchmarkErc721Owners, benchmarkErc20Owners, benchmarkErc721Transfers),*)
(* the accumulation maps, validateCount, and the per-target dispatch of    *)
(* main().                                                                 *)
(*                                                                         *)
(* The program is single-threaded and suspends only at `await`.  A state   *)
(* of the model is the program waiting at one of its awaits (pc names the  *)
(* await), and an action is what the program runs, atomically, from one    *)
(* await to the next.  The remote API is the environment: every response   *)
(* is drawn from a bounded set of JSON bodies, or is a failure.            *)
(*                                                                         *)
(* Not modelled: wall-clock timings (ms, totalMs, sleep), URLs, chain ids  *)
(* and console output other than the number of debugApiResponse dumps;     *)
(* none of them is read back by the control flow.                          *)
(***************************************************************************)
EXTENDS Integers, Sequences, FiniteSets, TLC

(***************************************************************************)
(* Bounds of the model.                                                    *)
(***************************************************************************)
\* page indices 0..MaxPages-1 are requested; the code has no ceiling
MaxPages == 2

(***************************************************************************)
(* JavaScript values.  An optional value (a field that may be missing, a   *)
(* variable that may be undefined) is a sequence of length 0 or 1.         *)
(***************************************************************************)
None == <<>>
Some(x) == <<x>>
IsSome(o) == Len(o) > 0
Get(o) == o[1]

\* a < b on two possibly-undefined numbers: an undefined operand becomes NaN
\* and every comparison with NaN is false
JsLess(a, b) == IsSome(a) /\ IsSome(b) /\ Get(a) < Get(b)
\* a - n on a possibly-undefined number (undefined - n is NaN, kept as None)
JsMinus(a, n) == IF IsSome(a) THEN Some(Get(a) - n) ELSE None

\* String.prototype.toLowerCase on the address strings of the model: "0xA" and
\* "0xa" are two spellings of one address, "0xb" is another address
toLowerCase(s) == IF s = "0xA" THEN "0xa" ELSE s

\* Map.prototype.set on a map held as a function
MapSet(m, k, v) == [x \in (DOMAIN m) \cup {k} |-> IF x = k THEN v ELSE m[x]]
EmptyMap == [x \in {} |-> 0]

Digits == <<"0", "1", "2", "3", "4", "5", "6", "7", "8", "9">>
DigitValue(c) == (CHOOSE d \in 1..10 : Digits[d] = c) - 1
IsDigit(c) == \E d \in 1..10 : Digits[d] = c

\* parseInt(s, 10) on a string of decimal digits (held as a sequence of characters)
RECURSIVE parseIntFrom(_, _, _)
parseIntFrom(s, i, acc) ==
  IF i > Len(s) \/ ~IsDigit(s[i]) THEN acc
  ELSE parseIntFrom(s, i + 1, acc * 10 + DigitValue(s[i]))
parseInt(s) == parseIntFrom(s, 1, 0)

(***************************************************************************)
(* BigInt arithmetic of weiToTokens.  A BigInt is a sign and a magnitude,  *)
(* the magnitude held as its decimal digits without leading zeros (<<"0">> *)
(* for zero), so that values beyond the model checker's integers (10^18)   *)
(* are exact; dividing a magnitude by 10^d and taking the remainder are    *)
(* then the digits before and the last d digits.                           *)
(***************************************************************************)
RECURSIVE stripLeadingZeros(_)
stripLeadingZeros(s) ==
  IF Len(s) > 1 /\ s[1] = "0" THEN stripLeadingZeros(Tail(s)) ELSE s
RECURSIVE stripTrailingZeros(_)
stripTrailingZeros(s) ==
  IF Len(s) > 0 /\ s[Len(s)] = "0" THEN stripTrailingZeros(SubSeq(s, 1, Len(s) - 1)) ELSE s
\* faulty variant of padStart: nothing is added
padStart_NoPadding(s, n, c) == s
RECURSIVE padStart(_, _, _)
padStart(s, n, c) == IF Len(s) >= n THEN s ELSE padStart(<<c>> \o s, n, c)

\* the white space StringToBigInt removes from both ends
WhiteSpace == {" ", "\t", "\n", "\r"}
RECURSIVE trimStart(_)
trimStart(s) == IF Len(s) > 0 /\ s[1] \in WhiteSpace THEN trimStart(Tail(s)) ELSE s
RECURSIVE trimEnd(_)
trimEnd(s) ==
  IF Len(s) > 0 /\ s[Len(s)] \in WhiteSpace THEN trimEnd(SubSeq(s, 1, Len(s) - 1)) ELSE s
trim(s) == trimEnd(trimStart(s))

\* the digits of the radix prefixes 0x, 0o and 0b
RadixDigitsLower == <<"0", "1", "2", "3", "4", "5", "6", "7", "8", "9",
                      "a", "b", "c", "d", "e", "f">>
RadixDigitsUpper == <<"0", "1", "2", "3", "4", "5", "6", "7", "8", "9",
                      "A", "B", "C", "D", "E", "F">>
IsRadixDigit(c, radix) ==
  \E d \in 1..radix : RadixDigitsLower[d] = c \/ RadixDigitsUpper[d] = c
RadixDigitValue(c) ==
  (CHOOSE d \in 1..16 : RadixDigitsLower[d] = c \/ RadixDigitsUpper[d] = c) - 1
\* the radix a prefixed literal declares, 0 when the text has no radix prefix
RadixOf(t) ==
  IF Len(t) < 2 \/ t[1] # "0" THEN 0
  ELSE IF t[2] \in {"x", "X"} THEN 16
  ELSE IF t[2] \in {"o", "O"} THEN 8
  ELSE IF t[2] \in {"b", "B"} THEN 2
  ELSE 0
RECURSIVE RadixValue(_, _, _, _)
RadixValue(t, i, radix, acc) ==
  IF i > Len(t) THEN acc
  ELSE RadixValue(t, i + 1, radix, acc * radix + RadixDigitValue(t[i]))
\* the decimal digits of a natural number
RECURSIVE ToDigits(_)
ToDigits(n) == IF n < 10 THEN <<Digits[n + 1]>> ELSE Append(ToDigits(n \div 10), Digits[(n % 10) + 1])

IsDecimalDigits(t) == Len(t) > 0 /\ \A i \in 1..Len(t) : IsDigit(t[i])
IsSignedDecimal(t) ==
  IF Len(t) > 0 /\ t[1] \in {"+", "-"} THEN IsDecimalDigits(Tail(t)) ELSE IsDecimalDigits(t)
IsRadixLiteral(t) ==
  /\ RadixOf(t) > 0
  /\ Len(t) > 2
  /\ \A i \in 3..Len(t) : IsRadixDigit(t[i], RadixOf(t))

\* BigInt(str) succeeds: StringToBigInt trims white space and then accepts the
\* empty text (0n), a decimal integer with an optional sign, and an unsigned
\* 0x, 0o or 0b literal; on anything else it throws a SyntaxError
CanParseBigInt(s) ==
  LET t == trim(s) IN Len(t) = 0 \/ IsSignedDecimal(t) \/ IsRadixLiteral(t)
BigIntOf(neg, mag) == [neg |-> neg /\ mag # <<"0">>, mag |-> mag]
BigIntParse(s) ==
  LET t == trim(s) IN
  IF Len(t) = 0 THEN BigIntOf(FALSE, <<"0">>)
  ELSE IF IsRadixLiteral(t) THEN BigIntOf(FALSE, ToDigits(RadixValue(t, 3, RadixOf(t), 0)))
  ELSE IF t[1] \in {"+", "-"} THEN BigIntOf(t[1] = "-", stripLeadingZeros(Tail(t)))
  ELSE BigIntOf(FALSE, stripLeadingZeros(t))
\* BigInt.prototype.toString
BigIntToString(b) == IF b.neg THEN <<"-">> \o b.mag ELSE b.mag
\* wei / 10n ** d: the quotient is truncated towards zero
BigIntDivPow10(w, d) ==
  BigIntOf(w.neg, IF Len(w.mag) > d THEN SubSeq(w.mag, 1, Len(w.mag) - d) ELSE <<"0">>)
\* wei % 10n ** d: the remainder has the sign of the dividend
BigIntModPow10(w, d) ==
  BigIntOf(w.neg,
           IF d = 0 THEN <<"0">>
           ELSE IF Len(w.mag) > d
                THEN stripLeadingZeros(SubSeq(w.mag, Len(w.mag) - d + 1, Len(w.mag)))
                ELSE w.mag)

\* BigInt(decimals) and 10n ** it throw a RangeError on a negative count, which
\* the catch answers like a SyntaxError of BigInt(weiBalance)
weiToTokens(weiBalance, decimals) ==
  IF CanParseBigInt(weiBalance) /\ decimals >= 0
  THEN LET wei == BigIntParse(weiBalance)
           tokens == BigIntDivPow10(wei, decimals)
           remainder == BigIntModPow10(wei, decimals)
       IN IF remainder = BigIntOf(FALSE, <<"0">>) THEN BigIntToString(tokens)
          ELSE LET remainderStr == padStart(BigIntToString(remainder), decimals, "0")
                   trimmedRemainder == stripTrailingZeros(remainderStr)
               IN IF Len(trimmedRemainder) > 0
                  THEN BigIntToString(tokens) \o <<".">> \o trimmedRemainder
                  ELSE BigIntToString(tokens)
  ELSE weiBalance

(***************************************************************************)
(* The environment: response bodies of the remote API.                     *)
(*   shape "array":  { data: [record, ...] }                               *)
(*   shape "nested": { data: { data?: [k opaque items], meta?: {...} } }   *)
(*   shape "none":   a body without a (truthy) data field                  *)
(***************************************************************************)
OwnerRecords ==
  { [owner_address |-> Some("0xa"), balance |-> Some(<<"2">>)],
    [owner_address |-> Some("0xA"), balance |-> Some(<<"3">>)],
    [owner_address |-> Some("0xb"), balance |-> None],
    [owner_address |-> None,        balance |-> Some(<<"2">>)] }

SeqsUpTo(S, n) == UNION { [1..k -> S] : k \in 0..n }

JsNumbers(S) == {None} \cup { Some(n) : n \in S }
\* meta objects: page 0 of 2 (more pages), page 1 of 2 (the last page), and
\* an object without a page field
Metas == {None} \cup { Some([page |-> p, total_pages |-> Some(2)]) :
                         p \in JsNumbers({0, 1}) }

\* the --limit values explored (the program allows 1..1000)
Limits == {1, 2}
\* a page holds up to LargestPage items, the largest page size explored: the
\* server sends fewer items than `limit`, as many, or (under the smaller limit) more
LargestPage == CHOOSE n \in Limits : \A l \in Limits : l <= n
ArrayResponses(largest) ==
  { [shape |-> "array", data |-> d, inner |-> None, meta |-> None] :
      d \in SeqsUpTo(OwnerRecords, largest) }
NestedResponses(largest) ==
  { [shape |-> "nested", data |-> <<>>, inner |-> i, meta |-> m] :
      i \in JsNumbers(0..largest), m \in Metas }
NoneResponse == [shape |-> "none", data |-> <<>>, inner |-> None, meta |-> None]
\* the bodies with pages of up to `largest` items
ResponsesUpTo(largest) ==
  ArrayResponses(largest) \cup NestedResponses(largest) \cup {NoneResponse}
\* the bodies a request with page size lim is answered with
Responses(lim) == ResponsesUpTo(LargestPage)

\* outcomes of GET /tokens: httpGet throws, or a body whose data[0].decimals is
\* missing or a number
DefaultDecimals == 18
TokenInfoOutcomes ==
  { [ok |-> FALSE, decimals |-> None],
    [ok |-> TRUE,  decimals |-> None],
    [ok |-> TRUE,  decimals |-> Some(1)] }

\* json?.data && Array.isArray(json.data)
IsDataArray(json) == json.shape = "array"
\* json?.data?.data && Array.isArray(json.data.data)
IsNestedDataArray(json) == json.shape = "nested" /\ IsSome(json.inner)
\* json?.data?.meta
JsonMeta(json) == IF json.shape = "nested" THEN json.meta ELSE None

(***************************************************************************)
(* Configuration: the page size, collections.csv rows and the              *)
(* expected-count tables.                                                  *)
(***************************************************************************)
\* process.env: a variable is unset, empty, blank or holds an identifier
EnvValues == { None, Some(<<>>), Some(<<" ">>), Some(<<"i", "d">>) }
AllEnvs == { [X_CLIENT_ID |-> a, X_CLIENT_ID_HEADER |-> b] : a \in EnvValues, b \in EnvValues }
NoEnv == [X_CLIENT_ID |-> None, X_CLIENT_ID_HEADER |-> None]
\* the environments of the runs explored in full: an identifier, and none
EnvChoices == { [X_CLIENT_ID |-> Some(<<"i", "d">>), X_CLIENT_ID_HEADER |-> None], NoEnv }
\* faulty variant of clientIdOf: the value is not trimmed
clientIdOf_Untrimmed(e) ==
  IF IsSome(e.X_CLIENT_ID) THEN Get(e.X_CLIENT_ID)
  ELSE IF IsSome(e.X_CLIENT_ID_HEADER) THEN Get(e.X_CLIENT_ID_HEADER)
  ELSE <<>>

\* (process.env.X_CLIENT_ID ?? process.env.X_CLIENT_ID_HEADER ?? '').trim()
clientIdOf(e) ==
  trim(IF IsSome(e.X_CLIENT_ID) THEN Get(e.X_CLIENT_ID)
       ELSE IF IsSome(e.X_CLIENT_ID_HEADER) THEN Get(e.X_CLIENT_ID_HEADER)
       ELSE <<>>)


RowsChoices ==
  { << [type |-> "erc721", address |-> "0xA"] >>,
    << [type |-> "erc721", address |-> "0xb"] >>,
    << [type |-> "erc20",  address |-> "0xa"] >>,
    << [type |-> "erc20",  address |-> "0xb"] >> }

\* --mode and the rows of a run
TransferModes == {"initial", "incremental"}
RunChoices == [mode : TransferModes, rows : RowsChoices]

\* (token-owner-data.csv rows, nft-transfers.csv rows)
ExpectedCsvChoices ==
  { << << [contract |-> "0xA", count |-> 2] >>, << [contract |-> "0xA", count |-> 3] >> >> }

\* faulty variant of loadTable: the key is the address as spelled in the file
RECURSIVE loadTable_AsSpelled(_, _, _)
loadTable_AsSpelled(csvRows, i, table) ==
  IF i > Len(csvRows) THEN table
  ELSE loadTable_AsSpelled(csvRows, i + 1,
                           MapSet(table, csvRows[i].contract, csvRows[i].count))

RECURSIVE loadTable(_, _, _)
loadTable(csvRows, i, table) ==
  IF i > Len(csvRows) THEN table
  ELSE loadTable(csvRows, i + 1,
                 MapSet(table, toLowerCase(csvRows[i].contract), csvRows[i].count))
loadExpectedData(csv) ==
  [tokenOwners |-> loadTable(csv[1], 1, EmptyMap),
   nftTransfers |-> loadTable(csv[2], 1, EmptyMap)]

\* expectedData.<table>[contractKey]: undefined when the key is missing
Lookup(table, key) == IF key \in DOMAIN table THEN Some(table[key]) ELSE None

\* faulty variant of validateCount: the difference taken the other way round
validateCount_Swapped(expected, actual) ==
  [expected |-> expected, actual |-> actual,
   isValid |-> (actual = expected), difference |-> expected - actual]

validateCount(expected, actual) ==
  [expected |-> expected, actual |-> actual,
   isValid |-> (actual = expected), difference |-> actual - expected]

VARIABLES
  env,                               \* process.env: X_CLIENT_ID and X_CLIENT_ID_HEADER
  limit, mode, rows, expectedData,   \* main(): parsed arguments and loaded files
  pc,                                \* the await the program is suspended at
  idx,                               \* main(): position of `for (const c of rows)`
  allResults,                        \* main(): the results list
  ret,                               \* the BenchmarkResult a driver returned (optional)
  page, totalItems, pages, perPage,  \* locals of the running driver
  items, hasNext, meta,              \* locals of the driver's last loop iteration
  ownerCounts,                       \* benchmarkErc721Owners: Map<string, number>
  holderBalances, duplicateLog,      \* benchmarkErc20Owners: Map<string, string>, log
  tokenDecimals, decimalsFound,      \* benchmarkErc20Owners: decimals discovery
  json, ri,                          \* benchmarkErc20Owners: the page body and the record
                                     \* being processed while GET /tokens is awaited
  hist,                              \* history: the records with an owner address that
                                     \* the running owners driver has accumulated, each
                                     \* with its page index and the decimals in effect
  debugDumps,                        \* debugApiResponse calls of the running driver
  lookups,                           \* history: the GET /tokens calls of the running
                                     \* driver, each with its probe, page and outcome
  inflight,                          \* the HTTP requests issued and not yet settled
  summaryMetrics,                    \* main(): calculateSummaryMetrics(allResults)
  resultRows,                        \* history: the row each entry of allResults is of
  failed,                            \* history: the fetches that ended in main()'s catch
  fetched,                           \* history: the page responses processed in the run
  fnArgs, fnResult                   \* inputs and result of a function applied on its own

config == <<env, limit, mode, rows, expectedData>>
erc20Locals == <<holderBalances, duplicateLog, tokenDecimals, decimalsFound, json, ri>>
vars == <<env, limit, mode, rows, expectedData, pc, idx, allResults, ret,
          page, totalItems, pages, perPage, items, hasNext, meta, ownerCounts,
          holderBalances, duplicateLog, tokenDecimals, decimalsFound, json, ri, hist,
          debugDumps, lookups, inflight, summaryMetrics, resultRows, failed, fetched,
          fnArgs, fnResult>>
runHistory == <<summaryMetrics, resultRows, failed>>
pureVars == <<fnArgs, fnResult>>

\* faulty variant of FreshLocals: the two maps and the duplicate log are kept
FreshLocals_KeepsMaps ==
  /\ page' = 0
  /\ totalItems' = 0
  /\ pages' = 0
  /\ perPage' = <<>>
  /\ items' = 0
  /\ hasNext' = FALSE
  /\ meta' = None
  /\ ownerCounts' = ownerCounts
  /\ holderBalances' = holderBalances
  /\ duplicateLog' = duplicateLog
  /\ tokenDecimals' = DefaultDecimals
  /\ decimalsFound' = FALSE
  /\ json' = None
  /\ ri' = 0
  /\ hist' = <<>>
  /\ debugDumps' = 0
  /\ lookups' = <<>>

\* the locals a driver starts with
FreshLocals ==
  /\ page' = 0
  /\ totalItems' = 0
  /\ pages' = 0
  /\ perPage' = <<>>
  /\ items' = 0
  /\ hasNext' = FALSE
  /\ meta' = None
  /\ ownerCounts' = EmptyMap
  /\ holderBalances' = EmptyMap
  /\ duplicateLog' = <<>>
  /\ tokenDecimals' = DefaultDecimals
  /\ decimalsFound' = FALSE
  /\ json' = None
  /\ ri' = 0
  /\ hist' = <<>>
  /\ debugDumps' = 0
  /\ lookups' = <<>>

\* main() at entry, for given choices of the environment and the arguments
InitWith(envs, limits, runs) ==
  /\ env \in envs
  /\ limit \in limits
  /\ \E run \in runs : mode = run.mode /\ rows = run.rows
  /\ expectedData \in { loadExpectedData(csv) : csv \in ExpectedCsvChoices }
  /\ pc = "start"
  /\ idx = 1
  /\ allResults = <<>>
  /\ ret = None
  /\ page = 0
  /\ totalItems = 0
  /\ pages = 0
  /\ perPage = <<>>
  /\ items = 0
  /\ hasNext = FALSE
  /\ meta = None
  /\ ownerCounts = EmptyMap
  /\ holderBalances = EmptyMap
  /\ duplicateLog = <<>>
  /\ tokenDecimals = DefaultDecimals
  /\ decimalsFound = FALSE
  /\ json = None
  /\ ri = 0
  /\ hist = <<>>
  /\ debugDumps = 0
  /\ lookups = <<>>
  /\ inflight = {}
  /\ summaryMetrics = None
  /\ resultRows = <<>>
  /\ failed = {}
  /\ fetched = 0
  /\ fnArgs = None
  /\ fnResult = None

Init == InitWith(EnvChoices, Limits, RunChoices)

\* an HTTP request of the run: the row it is made for, its path and its page
Request(row, path, pg) == [row |-> row, path |-> path, page |-> pg]
\* the path a driver requests its pages from
PathOf(at) ==
  IF at = "owners721" THEN "/nfts/owners/{address}"
  ELSE IF at = "owners20" THEN "/tokens/owners"
  ELSE "/nfts/transfers"
\* faulty variant of settle: the awaited request stays outstanding
settle_Keep(requests, q) == requests
\* httpGet: `await fetch(...)` has settled, with a response or with a throw
settle(requests, q) == requests \ {q}
\* httpGet: fetch(url, { headers }) is called
issue(requests, q) == requests \cup {q}

\* faulty variant of the map key: the address as spelled in the record
ownerKey_Raw(record) == Get(record.owner_address)

\* record.owner_address.toLowerCase(): the key of both accumulation maps
ownerKey(record) == toLowerCase(Get(record.owner_address))

\* history: the records of data[from..to] that have an owner address
RECURSIVE HistOf(_, _, _, _, _)
HistOf(data, from, to, pg, decimals) ==
  IF from > to THEN <<>>
  ELSE (IF IsSome(data[from].owner_address)
        THEN << [owner_address |-> Get(data[from].owner_address),
                 balance |-> data[from].balance, page |-> pg, decimals |-> decimals] >>
        ELSE <<>>) \o HistOf(data, from + 1, to, pg, decimals)

\* faulty variants of the continuation decision: a short page also continues; a full
\* page stops; the metadata is ignored
HasNext_ShortContinues(body, n, lim) ==
  IF IsSome(JsonMeta(body))
  THEN JsLess(Get(JsonMeta(body)).page, JsMinus(Get(JsonMeta(body)).total_pages, 1))
  ELSE n <= lim
HasNext_FullStops(body, n, lim) ==
  IF IsSome(JsonMeta(body))
  THEN JsLess(Get(JsonMeta(body)).page, JsMinus(Get(JsonMeta(body)).total_pages, 1))
  ELSE n < lim
HasNext_ItemsOnly(body, n, lim) == n = lim

\* the continuation decision, written three times in the source with the same text
HasNext(body, n, lim) ==
  IF IsSome(JsonMeta(body))
  THEN JsLess(Get(JsonMeta(body)).page, JsMinus(Get(JsonMeta(body)).total_pages, 1))
  ELSE n = lim

\* faulty variant of the break: a ceiling of two pages
Breaks_Ceiling(hn, n) == ~hn \/ n = 0 \/ page >= 1

\* faulty variant of the break: the zero-items test dropped
Breaks_NoZeroTest(hn, n) == ~hn

\* faulty variant of the break: both tests are required
Breaks_BothRequired(hn, n) == ~hn /\ n = 0

\* if (!hasNext || items === 0) break;
Breaks(hn, n) == ~hn \/ n = 0

(***************************************************************************)
(* benchmarkErc721Owners                                                   *)
(***************************************************************************)
\* faulty variant of the ERC721 accumulation: the count is overwritten, not added to
addCount_Overwrite(counts, ownerAddr, balance) == MapSet(counts, ownerAddr, balance)

\* ownerCounts.set(ownerAddr, currentCount + balance)
addCount(counts, ownerAddr, balance) ==
  LET currentCount == IF ownerAddr \in DOMAIN counts THEN counts[ownerAddr] ELSE 0
  IN MapSet(counts, ownerAddr, currentCount + balance)

RECURSIVE accumulate721(_, _, _)
accumulate721(data, i, counts) ==
  IF i > Len(data) THEN counts
  ELSE LET record == data[i] IN
    IF IsSome(record.owner_address)
    THEN LET ownerAddr == ownerKey(record)
             balance == parseInt(IF IsSome(record.balance) THEN Get(record.balance) ELSE <<"1">>)
         IN accumulate721(data, i + 1, addCount(counts, ownerAddr, balance))
    ELSE accumulate721(data, i + 1, counts)

\* the raw number of records of the pages fetched
RECURSIVE SumItems(_)
SumItems(timings) ==
  IF Len(timings) = 0 THEN 0 ELSE timings[1].items + SumItems(Tail(timings))

\* faulty variant of the owners result: validated against the raw record count
Result721Owners_RawCount(address, counts, npages, timings) ==
  [contract |-> address,
   endpoint |-> "/nfts/owners/{address}",
   totalItems |-> Cardinality(DOMAIN counts),
   pages |-> npages,
   perPage |-> timings,
   validation |->
     LET expectedCount == Lookup(expectedData.tokenOwners, toLowerCase(address))
     IN IF IsSome(expectedCount)
        THEN Some(validateCount(Get(expectedCount), SumItems(timings)))
        ELSE None]

Result721Owners(address, counts, npages, timings) ==
  [contract |-> address,
   endpoint |-> "/nfts/owners/{address}",
   totalItems |-> Cardinality(DOMAIN counts),
   pages |-> npages,
   perPage |-> timings,
   validation |->
     LET expectedCount == Lookup(expectedData.tokenOwners, toLowerCase(address))
     IN IF IsSome(expectedCount)
        THEN Some(validateCount(Get(expectedCount), Cardinality(DOMAIN counts)))
        ELSE None]

Erc721OwnersPage(body) ==
  /\ pc = "owners721"
  /\ page < MaxPages
  /\ LET n == IF IsDataArray(body) THEN Len(body.data) ELSE 0
         counts == IF IsDataArray(body) THEN accumulate721(body.data, 1, ownerCounts)
                   ELSE ownerCounts
         hn == HasNext(body, n, limit)
         timings == Append(perPage, [page |-> page + 1, items |-> n])
     IN /\ ownerCounts' = counts
        /\ hist' = IF IsDataArray(body)
                   THEN hist \o HistOf(body.data, 1, Len(body.data), page, tokenDecimals)
                   ELSE hist
        /\ items' = n
        /\ perPage' = timings
        /\ totalItems' = totalItems + n
        /\ pages' = pages + 1
        /\ hasNext' = hn
        /\ meta' = JsonMeta(body)
        /\ debugDumps' = IF IsDataArray(body) THEN debugDumps ELSE debugDumps + 1
        /\ fetched' = fetched + 1
        /\ IF Breaks(hn, n)
           THEN /\ page' = page
                /\ ret' = Some(Result721Owners(rows[idx].address, counts, pages + 1, timings))
                /\ pc' = "returned"
                /\ inflight' = settle(inflight, Request(idx, PathOf(pc), page))
           ELSE /\ page' = page + 1
                /\ ret' = ret
                /\ pc' = "owners721"
                /\ inflight' = issue(settle(inflight, Request(idx, PathOf(pc), page)),
                                     Request(idx, PathOf(pc), page + 1))
  /\ UNCHANGED <<config, idx, allResults, erc20Locals, lookups, runHistory, pureVars>>

(***************************************************************************)
(* benchmarkErc20Owners                                                    *)
(***************************************************************************)
\* The `for (const record of json.data)` loop from record i on, up to the end of
\* the page (awaitAt = 0) or to the record at which GET /tokens is awaited.
\* `looked` says that record i's lookup has just been answered.
\* faulty variant of logDuplicate: logged only when the balance changes
logDuplicate_WhenChanged(log, balances, holderAddr, pg, tokenBalance) ==
  IF holderAddr \in DOMAIN balances /\ balances[holderAddr] # tokenBalance
  THEN Append(log, [address |-> holderAddr, page |-> pg,
                    existingBalance |-> balances[holderAddr],
                    newBalance |-> tokenBalance])
  ELSE log

\* if (holderBalances.has(holderAddr)) duplicateLog.push({...})
logDuplicate(log, balances, holderAddr, pg, tokenBalance) ==
  IF holderAddr \in DOMAIN balances
  THEN Append(log, [address |-> holderAddr, page |-> pg,
                    existingBalance |-> balances[holderAddr],
                    newBalance |-> tokenBalance])
  ELSE log

\* faulty variant of the ERC20 accumulation: the first balance of an address is kept
setBalance_KeepFirst(balances, holderAddr, tokenBalance) ==
  IF holderAddr \in DOMAIN balances THEN balances
  ELSE MapSet(balances, holderAddr, tokenBalance)

\* holderBalances.set(holderAddr, tokenBalance)
setBalance(balances, holderAddr, tokenBalance) == MapSet(balances, holderAddr, tokenBalance)

RECURSIVE accumulate20(_, _, _, _, _, _, _, _)
accumulate20(data, i, looked, balances, log, decimals, found, pg) ==
  IF i > Len(data)
  THEN [holderBalances |-> balances, duplicateLog |-> log, awaitAt |-> 0]
  ELSE LET record == data[i] IN
    IF ~IsSome(record.owner_address)
    THEN accumulate20(data, i + 1, FALSE, balances, log, decimals, found, pg)
    ELSE IF ~looked /\ ~found /\ pg = 0
    THEN [holderBalances |-> balances, duplicateLog |-> log, awaitAt |-> i]
    ELSE LET holderAddr == ownerKey(record)
             weiBalance == IF IsSome(record.balance) THEN Get(record.balance) ELSE <<"0">>
             tokenBalance == weiToTokens(weiBalance, decimals)
         IN accumulate20(data, i + 1, FALSE, setBalance(balances, holderAddr, tokenBalance),
                         logDuplicate(log, balances, holderAddr, pg, tokenBalance),
                         decimals, found, pg)

Result20Owners(address, balances, npages, timings) ==
  [contract |-> address,
   endpoint |-> "/tokens/owners",
   totalItems |-> Cardinality(DOMAIN balances),
   pages |-> npages,
   perPage |-> timings,
   validation |->
     LET expectedCount == Lookup(expectedData.tokenOwners, toLowerCase(address))
     IN IF IsSome(expectedCount)
        THEN Some(validateCount(Get(expectedCount), Cardinality(DOMAIN balances)))
        ELSE None]

\* the rest of a loop iteration once the page's records are accumulated
EndOfPage20(body, from, balances, log, decimals, answered, awaited) ==
  LET n == IF IsDataArray(body) THEN Len(body.data) ELSE 0
      hn == HasNext(body, n, limit)
      timings == Append(perPage, [page |-> page + 1, items |-> n])
  IN /\ holderBalances' = balances
     /\ duplicateLog' = log
     /\ hist' = IF IsDataArray(body)
                THEN hist \o HistOf(body.data, from, Len(body.data), page, decimals)
                ELSE hist
     /\ json' = None
     /\ ri' = 0
     /\ items' = n
     /\ perPage' = timings
     /\ totalItems' = totalItems + n
     /\ pages' = pages + 1
     /\ hasNext' = hn
     /\ meta' = JsonMeta(body)
     /\ debugDumps' = IF IsDataArray(body) THEN debugDumps ELSE debugDumps + 1
     /\ lookups' = answered
     /\ fetched' = fetched + 1
     /\ IF Breaks(hn, n)
        THEN /\ page' = page
             /\ ret' = Some(Result20Owners(rows[idx].address, balances, pages + 1, timings))
             /\ pc' = "returned"
             /\ inflight' = settle(inflight, awaited)
        ELSE /\ page' = page + 1
             /\ ret' = ret
             /\ pc' = "owners20"
             /\ inflight' = issue(settle(inflight, awaited),
                                  Request(idx, "/tokens/owners", page + 1))

\* the loop is suspended at record i, awaiting GET /tokens
AwaitTokens20(body, from, balances, log, decimals, i, answered, awaited) ==
  /\ holderBalances' = balances
  /\ duplicateLog' = log
  /\ hist' = hist \o HistOf(body.data, from, i - 1, page, decimals)
  /\ json' = Some(body)
  /\ ri' = i
  /\ pc' = "tokens"
  /\ lookups' = Append(answered, [page |-> page, probe |-> ownerKey(body.data[i]),
                                  outcome |-> "pending"])
  /\ inflight' = issue(settle(inflight, awaited), Request(idx, "/tokens", page))
  /\ UNCHANGED <<page, totalItems, pages, perPage, items, hasNext, meta, ret,
                 debugDumps, fetched>>

Erc20OwnersPage(body) ==
  /\ pc = "owners20"
  /\ page < MaxPages
  /\ LET r == IF IsDataArray(body)
              THEN accumulate20(body.data, 1, FALSE, holderBalances, duplicateLog,
                                tokenDecimals, decimalsFound, page)
              ELSE [holderBalances |-> holderBalances, duplicateLog |-> duplicateLog,
                    awaitAt |-> 0]
         awaited == Request(idx, "/tokens/owners", page)
     IN IF r.awaitAt > 0
        THEN AwaitTokens20(body, 1, r.holderBalances, r.duplicateLog, tokenDecimals,
                           r.awaitAt, lookups, awaited)
        ELSE EndOfPage20(body, 1, r.holderBalances, r.duplicateLog, tokenDecimals,
                         lookups, awaited)
  /\ UNCHANGED <<config, idx, allResults, ownerCounts, tokenDecimals, decimalsFound,
                 runHistory, pureVars>>

\* GET /tokens is answered (or throws, which the driver catches)
\* faulty variant of decimalsFoundAfter: a failed lookup leaves the flag as it is
decimalsFoundAfter_RetryOnFailure(tokenInfo, found) ==
  IF tokenInfo.ok THEN (found \/ IsSome(tokenInfo.decimals)) ELSE found

\* decimalsFound after the lookup: set with the decimals of the answer, and in
\* the catch of a failed lookup
decimalsFoundAfter(tokenInfo, found) ==
  IF tokenInfo.ok THEN (found \/ IsSome(tokenInfo.decimals)) ELSE TRUE
\* tokenDecimals after the lookup
tokenDecimalsAfter(tokenInfo, decimals) ==
  IF tokenInfo.ok /\ IsSome(tokenInfo.decimals) THEN Get(tokenInfo.decimals) ELSE decimals
\* what the lookup gave
OutcomeOf(tokenInfo) ==
  IF ~tokenInfo.ok THEN "failed"
  ELSE IF IsSome(tokenInfo.decimals) THEN "decimals" ELSE "nodecimals"

Erc20TokenInfo(tokenInfo) ==
  /\ pc = "tokens"
  /\ LET found == decimalsFoundAfter(tokenInfo, decimalsFound)
         decimals == tokenDecimalsAfter(tokenInfo, tokenDecimals)
         r == accumulate20(Get(json).data, ri, TRUE, holderBalances, duplicateLog,
                           decimals, found, page)
         answered == [lookups EXCEPT ![Len(lookups)].outcome = OutcomeOf(tokenInfo)]
         awaited == Request(idx, "/tokens", page)
     IN /\ tokenDecimals' = decimals
        /\ decimalsFound' = found
        /\ IF r.awaitAt > 0
           THEN AwaitTokens20(Get(json), ri, r.holderBalances, r.duplicateLog, decimals,
                              r.awaitAt, answered, awaited)
           ELSE EndOfPage20(Get(json), ri, r.holderBalances, r.duplicateLog, decimals,
                            answered, awaited)
  /\ UNCHANGED <<config, idx, allResults, ownerCounts, runHistory, pureVars>>

(***************************************************************************)
(* benchmarkErc721Transfers                                                *)
(***************************************************************************)
\* faulty variant of the transfers result: validated in every mode
ResultTransfers_AnyMode(address, total, npages, timings) ==
  [contract |-> address,
   endpoint |-> "/nfts/transfers",
   totalItems |-> total,
   pages |-> npages,
   perPage |-> timings,
   validation |->
     LET expectedCount == Lookup(expectedData.nftTransfers, toLowerCase(address))
     IN IF IsSome(expectedCount)
        THEN Some(validateCount(Get(expectedCount), total))
        ELSE None]

\* faulty variant of the transfers result: the last page index reported as pages
ResultTransfers_LastIndex(address, total, npages, timings) ==
  [contract |-> address,
   endpoint |-> "/nfts/transfers",
   totalItems |-> total,
   pages |-> npages - 1,
   perPage |-> timings,
   validation |->
     IF mode = "initial"
     THEN LET expectedCount == Lookup(expectedData.nftTransfers, toLowerCase(address))
          IN IF IsSome(expectedCount)
             THEN Some(validateCount(Get(expectedCount), total))
             ELSE None
     ELSE None]

\* faulty variant of the transfers result: the mode test inverted
ResultTransfers_ModeInverted(address, total, npages, timings) ==
  [contract |-> address,
   endpoint |-> "/nfts/transfers",
   totalItems |-> total,
   pages |-> npages,
   perPage |-> timings,
   validation |->
     IF mode # "initial"
     THEN LET expectedCount == Lookup(expectedData.nftTransfers, toLowerCase(address))
          IN IF IsSome(expectedCount)
             THEN Some(validateCount(Get(expectedCount), total))
             ELSE None
     ELSE None]

ResultTransfers(address, total, npages, timings) ==
  [contract |-> address,
   endpoint |-> "/nfts/transfers",
   totalItems |-> total,
   pages |-> npages,
   perPage |-> timings,
   validation |->
     IF mode = "initial"
     THEN LET expectedCount == Lookup(expectedData.nftTransfers, toLowerCase(address))
          IN IF IsSome(expectedCount)
             THEN Some(validateCount(Get(expectedCount), total))
             ELSE None
     ELSE None]

Erc721TransfersPage(body) ==
  /\ pc = "transfers"
  /\ page < MaxPages
  /\ LET n == IF IsNestedDataArray(body) THEN Get(body.inner) ELSE 0
         hn == HasNext(body, n, limit)
         timings == Append(perPage, [page |-> page + 1, items |-> n])
     IN /\ items' = n
        /\ perPage' = timings
        /\ totalItems' = totalItems + n
        /\ pages' = pages + 1
        /\ hasNext' = hn
        /\ meta' = JsonMeta(body)
        /\ debugDumps' = IF IsNestedDataArray(body) THEN debugDumps ELSE debugDumps + 1
        /\ fetched' = fetched + 1
        /\ IF Breaks(hn, n)
           THEN /\ page' = page
                /\ ret' = Some(ResultTransfers(rows[idx].address, totalItems + n, pages + 1, timings))
                /\ pc' = "returned"
                /\ inflight' = settle(inflight, Request(idx, PathOf(pc), page))
           ELSE /\ page' = page + 1
                /\ ret' = ret
                /\ pc' = "transfers"
                /\ inflight' = issue(settle(inflight, Request(idx, PathOf(pc), page)),
                                     Request(idx, PathOf(pc), page + 1))
  /\ UNCHANGED <<config, idx, allResults, ownerCounts, erc20Locals, hist, lookups,
                 runHistory, pureVars>>

(***************************************************************************)
(* httpGet throwing (non-2xx status or transport failure) while a page is  *)
(* awaited: the driver's frame is dropped and main()'s catch logs it.      *)
(***************************************************************************)
\* faulty variant of PageFetchFails: the failed page is requested again
PageFetchFails_Retries ==
  /\ pc \in {"owners721", "owners20", "transfers"}
  /\ failed' = failed \cup {[row |-> idx, endpoint |-> PathOf(pc), pages |-> pages]}
  /\ inflight' = issue(settle(inflight, Request(idx, PathOf(pc), page)),
                       Request(idx, PathOf(pc), page))
  /\ UNCHANGED <<config, pc, idx, allResults, ret, page, totalItems, pages, perPage,
                 items, hasNext, meta, ownerCounts, erc20Locals, hist, debugDumps,
                 lookups, summaryMetrics, resultRows, fetched, pureVars>>

\* faulty variant of PageFetchFails: after a failed ERC721 owners fetch the
\* transfers are fetched
PageFetchFails_GoesOnToTransfers ==
  /\ pc \in {"owners721", "owners20", "transfers"}
  /\ pc' = IF pc = "owners721" THEN "transfers" ELSE "main"
  /\ idx' = IF pc = "owners721" THEN idx ELSE idx + 1
  /\ ret' = None
  /\ inflight' = IF pc = "owners721"
                 THEN issue(settle(inflight, Request(idx, PathOf(pc), page)),
                            Request(idx, "/nfts/transfers", 0))
                 ELSE settle(inflight, Request(idx, PathOf(pc), page))
  /\ failed' = failed \cup {[row |-> idx, endpoint |-> PathOf(pc), pages |-> pages]}
  /\ FreshLocals
  /\ UNCHANGED <<config, allResults, summaryMetrics, resultRows, fetched, pureVars>>

\* faulty variant of PageFetchFails: the throw ends the loop over the rows
PageFetchFails_EndsRun ==
  /\ pc \in {"owners721", "owners20", "transfers"}
  /\ pc' = "main"
  /\ idx' = Len(rows) + 1
  /\ ret' = None
  /\ inflight' = settle(inflight, Request(idx, PathOf(pc), page))
  /\ failed' = failed \cup {[row |-> idx, endpoint |-> PathOf(pc), pages |-> pages]}
  /\ FreshLocals
  /\ UNCHANGED <<config, allResults, summaryMetrics, resultRows, fetched, pureVars>>

\* faulty variant of PageFetchFails: the pages fetched so far are kept as a result
PageFetchFails_KeepsPartial ==
  /\ pc \in {"owners721", "owners20", "transfers"}
  /\ pc' = "main"
  /\ idx' = idx + 1
  /\ ret' = None
  /\ inflight' = settle(inflight, Request(idx, PathOf(pc), page))
  /\ failed' = failed \cup {[row |-> idx, endpoint |-> PathOf(pc), pages |-> pages]}
  /\ allResults' = Append(allResults, [contract |-> rows[idx].address,
                                       endpoint |-> PathOf(pc),
                                       totalItems |-> totalItems,
                                       pages |-> pages,
                                       perPage |-> perPage,
                                       validation |-> None])
  /\ resultRows' = Append(resultRows, idx)
  /\ FreshLocals
  /\ UNCHANGED <<config, summaryMetrics, fetched, pureVars>>

PageFetchFails ==
  /\ pc \in {"owners721", "owners20", "transfers"}
  /\ pc' = "main"
  /\ idx' = idx + 1
  /\ ret' = None
  /\ inflight' = settle(inflight, Request(idx, PathOf(pc), page))
  /\ failed' = failed \cup {[row |-> idx, endpoint |-> PathOf(pc), pages |-> pages]}
  /\ FreshLocals
  /\ UNCHANGED <<config, allResults, summaryMetrics, resultRows, fetched, pureVars>>

(***************************************************************************)
(* main(): the loop over the rows                                          *)
(***************************************************************************)
\* for (const c of rows): the call of the row's first driver, or the summary
\* calculateSummaryMetrics: the sums it takes over the results
RECURSIVE SumQueries(_)
SumQueries(results) ==
  IF Len(results) = 0 THEN 0 ELSE Len(results[1].perPage) + SumQueries(Tail(results))
RECURSIVE SumTotalItems(_)
SumTotalItems(results) ==
  IF Len(results) = 0 THEN 0 ELSE results[1].totalItems + SumTotalItems(Tail(results))
RECURSIVE SumResultPages(_)
SumResultPages(results) ==
  IF Len(results) = 0 THEN 0 ELSE results[1].pages + SumResultPages(Tail(results))

\* calculateSummaryMetrics without the timings: the number of page queries and,
\* per endpoint, the number of results and their items and pages
calculateSummaryMetrics(results) ==
  [totalQueries |-> SumQueries(results),
   endpointStats |->
     [e \in { results[k].endpoint : k \in 1..Len(results) } |->
        LET Of(r) == r.endpoint = e
        IN [count |-> Len(SelectSeq(results, Of)),
            items |-> SumTotalItems(SelectSeq(results, Of)),
            pages |-> SumResultPages(SelectSeq(results, Of))]]]

\* main() up to the rows loop: without a client identifier, or without a valid
\* row, process.exit(1)
MainStart ==
  /\ pc = "start"
  /\ IF Len(clientIdOf(env)) = 0 \/ Len(rows) = 0 THEN pc' = "exit" ELSE pc' = "main"
  /\ UNCHANGED <<config, idx, allResults, ret, page, totalItems, pages, perPage,
                 items, hasNext, meta, ownerCounts, erc20Locals, hist, debugDumps,
                 lookups, inflight, runHistory, fetched, pureVars>>

MainNextRow ==
  /\ pc = "main"
  /\ IF idx > Len(rows)
     THEN /\ pc' = "done"
          /\ summaryMetrics' = Some(calculateSummaryMetrics(allResults))
          /\ inflight' = inflight
     ELSE /\ pc' = IF rows[idx].type = "erc721" THEN "owners721" ELSE "owners20"
          /\ summaryMetrics' = summaryMetrics
          /\ inflight' = issue(inflight,
                               Request(idx, IF rows[idx].type = "erc721"
                                            THEN "/nfts/owners/{address}"
                                            ELSE "/tokens/owners", 0))
  /\ FreshLocals
  /\ UNCHANGED <<config, idx, allResults, ret, resultRows, failed, fetched, pureVars>>

\* faulty variant of MainResume: the result is put at the head of the list
MainResume_PushesFirst ==
  /\ pc = "returned"
  /\ allResults' = <<Get(ret)>> \o allResults
  /\ resultRows' = <<idx>> \o resultRows
  /\ ret' = None
  /\ FreshLocals
  /\ IF Get(ret).endpoint = "/nfts/owners/{address}"
     THEN /\ pc' = "transfers"
          /\ idx' = idx
          /\ inflight' = issue(inflight, Request(idx, "/nfts/transfers", 0))
     ELSE /\ pc' = "main"
          /\ idx' = idx + 1
          /\ inflight' = inflight
  /\ UNCHANGED <<config, summaryMetrics, failed, fetched, pureVars>>

\* main() resumes with the driver's result: printResult, allResults.push, next call
MainResume ==
  /\ pc = "returned"
  /\ allResults' = Append(allResults, Get(ret))
  /\ resultRows' = Append(resultRows, idx)
  /\ ret' = None
  /\ FreshLocals
  /\ IF Get(ret).endpoint = "/nfts/owners/{address}"
     THEN /\ pc' = "transfers"
          /\ idx' = idx
          /\ inflight' = issue(inflight, Request(idx, "/nfts/transfers", 0))
     ELSE /\ pc' = "main"
          /\ idx' = idx + 1
          /\ inflight' = inflight
  /\ UNCHANGED <<config, summaryMetrics, failed, fetched, pureVars>>

Next ==
  \/ MainStart
  \/ MainNextRow
  \/ \E body \in Responses(limit) : Erc721OwnersPage(body)
  \/ \E body \in Responses(limit) : Erc20OwnersPage(body)
  \/ \E tokenInfo \in TokenInfoOutcomes : Erc20TokenInfo(tokenInfo)
  \/ \E body \in Responses(limit) : Erc721TransfersPage(body)
  \/ PageFetchFails
  \/ MainResume

Spec == Init /\ [][Next]_vars

(***************************************************************************)
(* Runs over two targets, with the smallest page size and no page longer   *)
(* than it.                                                                *)
(***************************************************************************)
TwoRowsChoices ==
  { << [type |-> "erc20",  address |-> "0xb"], [type |-> "erc721", address |-> "0xA"] >>,
    << [type |-> "erc721", address |-> "0xb"], [type |-> "erc20",  address |-> "0xa"] >>,
    << [type |-> "erc20",  address |-> "0xA"], [type |-> "erc20",  address |-> "0xa"] >> }

InitRun == InitWith({[X_CLIENT_ID |-> Some(<<"i", "d">>), X_CLIENT_ID_HEADER |-> None]},
                    {1}, { [mode |-> "initial", rows |-> r] : r \in TwoRowsChoices })

\* the steps of a run whose pages hold at most `limit` items
NextRun ==
  \/ MainStart
  \/ MainNextRow
  \/ \E body \in ResponsesUpTo(limit) : Erc721OwnersPage(body)
  \/ \E body \in ResponsesUpTo(limit) : Erc20OwnersPage(body)
  \/ \E tokenInfo \in TokenInfoOutcomes : Erc20TokenInfo(tokenInfo)
  \/ \E body \in ResponsesUpTo(limit) : Erc721TransfersPage(body)
  \/ PageFetchFails
  \/ MainResume

SpecRun == InitRun /\ [][NextRun]_vars

(***************************************************************************)
(* Runs over one target, under every environment.                          *)
(***************************************************************************)
InitStart == InitWith(AllEnvs, {1}, { [mode |-> "initial", rows |-> r] : r \in RowsChoices })

SpecStart == InitStart /\ [][Next]_vars

(***************************************************************************)
(* validateCount applied on its own to bounded inputs.                     *)
(***************************************************************************)
ValidateInputs == 96..104

InitValidate ==
  /\ env = NoEnv
  /\ limit = 1
  /\ mode = "initial"
  /\ rows = <<>>
  /\ expectedData = loadExpectedData(<< <<>>, <<>> >>)
  /\ pc = "validateCount"
  /\ idx = 1
  /\ allResults = <<>>
  /\ ret = None
  /\ page = 0
  /\ totalItems = 0
  /\ pages = 0
  /\ perPage = <<>>
  /\ items = 0
  /\ hasNext = FALSE
  /\ meta = None
  /\ ownerCounts = EmptyMap
  /\ holderBalances = EmptyMap
  /\ duplicateLog = <<>>
  /\ tokenDecimals = DefaultDecimals
  /\ decimalsFound = FALSE
  /\ json = None
  /\ ri = 0
  /\ hist = <<>>
  /\ debugDumps = 0
  /\ lookups = <<>>
  /\ inflight = {}
  /\ summaryMetrics = None
  /\ resultRows = <<>>
  /\ failed = {}
  /\ fetched = 0
  /\ fnArgs \in { Some(<<e, a>>) : e \in ValidateInputs, a \in ValidateInputs }
  /\ fnResult = None

ApplyValidateCount ==
  /\ pc = "validateCount"
  /\ fnResult = None
  /\ fnResult' = Some(validateCount(Get(fnArgs)[1], Get(fnArgs)[2]))
  /\ UNCHANGED <<config, pc, idx, allResults, ret, page, totalItems, pages, perPage,
                 items, hasNext, meta, ownerCounts, erc20Locals, hist, debugDumps,
                 lookups, inflight, runHistory, fetched, fnArgs>>

NextValidate == ApplyValidateCount

SpecValidate == InitValidate /\ [][NextValidate]_vars

(***************************************************************************)
(* weiToTokens applied on its own to bounded inputs.                       *)
(***************************************************************************)
\* texts of decimal digits, the empty text among them
WeiDigitTexts == SeqsUpTo({"0", "1", "5"}, 3)
\* 1.5, 1 and 10^-18 tokens of 18 decimals, in base units
WeiOneAndAHalf == <<"1", "5", "0", "0", "0", "0", "0", "0", "0", "0", "0", "0", "0", "0", "0", "0", "0", "0", "0">>
WeiOne == <<"1", "0", "0", "0", "0", "0", "0", "0", "0", "0", "0", "0", "0", "0", "0", "0", "0", "0", "0">>
WeiSmallest == <<"1">>
\* texts that are not unsigned decimal integers
WeiOtherTexts ==
  { <<"-", "5">>,
    <<"-", "1", "5", "0", "0">>,
    <<"+", "5">>,
    <<"a", "b", "c">>,
    <<"0", "x", "1", "0">>,
    <<"0", "X", "f", "F">>,
    <<"0", "b", "1", "0", "1">>,
    <<"0", "o", "1", "7">>,
    <<" ", "1", "2", " ">>,
    <<"\n", "5">>,
    <<"1", ".", "5">>,
    <<"1", "e", "3">>,
    <<"-", "0", "x", "1">>,
    <<"0", "x">>,
    <<"0", "x", "g">>,
    <<"-">>,
    <<"1", " ", "2">>,
    <<"0", "b", "2">> }
WeiInputs == WeiDigitTexts \cup {WeiOneAndAHalf, WeiOne, WeiSmallest} \cup WeiOtherTexts
WeiDecimals == {-1, 0, 1, 2, 18}

InitWei ==
  /\ env = NoEnv
  /\ limit = 1
  /\ mode = "initial"
  /\ rows = <<>>
  /\ expectedData = loadExpectedData(<< <<>>, <<>> >>)
  /\ pc = "weiToTokens"
  /\ idx = 1
  /\ allResults = <<>>
  /\ ret = None
  /\ page = 0
  /\ totalItems = 0
  /\ pages = 0
  /\ perPage = <<>>
  /\ items = 0
  /\ hasNext = FALSE
  /\ meta = None
  /\ ownerCounts = EmptyMap
  /\ holderBalances = EmptyMap
  /\ duplicateLog = <<>>
  /\ tokenDecimals = DefaultDecimals
  /\ decimalsFound = FALSE
  /\ json = None
  /\ ri = 0
  /\ hist = <<>>
  /\ debugDumps = 0
  /\ lookups = <<>>
  /\ inflight = {}
  /\ summaryMetrics = None
  /\ resultRows = <<>>
  /\ failed = {}
  /\ fetched = 0
  /\ fnArgs \in { Some(<<w, d>>) : w \in WeiInputs, d \in WeiDecimals }
  /\ fnResult = None

ApplyWeiToTokens ==
  /\ pc = "weiToTokens"
  /\ fnResult = None
  /\ fnResult' = Some(weiToTokens(Get(fnArgs)[1], Get(fnArgs)[2]))
  /\ UNCHANGED <<config, pc, idx, allResults, ret, page, totalItems, pages, perPage,
                 items, hasNext, meta, ownerCounts, erc20Locals, hist, debugDumps,
                 lookups, inflight, runHistory, fetched, fnArgs>>

NextWei == ApplyWeiToTokens

SpecWei == InitWei /\ [][NextWei]_vars

(***************************************************************************)
(* The expected-count lookup of the three drivers applied on its own to    *)
(* bounded reference tables, target addresses and counts.                  *)
(***************************************************************************)
\* the run's variables other than the configuration: no driver has run
NothingRun ==
  /\ idx = 1
  /\ allResults = <<>>
  /\ ret = None
  /\ page = 0
  /\ totalItems = 0
  /\ pages = 0
  /\ perPage = <<>>
  /\ items = 0
  /\ hasNext = FALSE
  /\ meta = None
  /\ ownerCounts = EmptyMap
  /\ holderBalances = EmptyMap
  /\ duplicateLog = <<>>
  /\ tokenDecimals = DefaultDecimals
  /\ decimalsFound = FALSE
  /\ json = None
  /\ ri = 0
  /\ hist = <<>>
  /\ debugDumps = 0
  /\ lookups = <<>>
  /\ inflight = {}
  /\ summaryMetrics = None
  /\ resultRows = <<>>
  /\ failed = {}
  /\ fetched = 0

\* contract addresses as spelled in collections.csv and in the reference tables
Spellings == {"0xA", "0xa", "0xb"}
\* rows of token-owner-data.csv, and of nft-transfers.csv
OwnerTableRows == { [contract |-> c, count |-> n] : c \in Spellings, n \in {1, 2} }
OwnerTables == SeqsUpTo(OwnerTableRows, 2)
TransferTables ==
  { <<>>, << [contract |-> "0xA", count |-> 1] >>, << [contract |-> "0xa", count |-> 2] >> }
\* the holders a fetch has accumulated, and the transfers it has counted
HolderSets == { {"0xa"}, {"0xa", "0xb"} }
TransferTotals == {1, 2}

\* the validation each driver attaches to its result, for a target address, a
\* set of accumulated holders and a transfers total
validationsOf(address, holders, total) ==
  [owners721 |-> Result721Owners(address, [a \in holders |-> 1], 1, <<>>).validation,
   owners20  |-> Result20Owners(address, [a \in holders |-> <<"1">>], 1, <<>>).validation,
   transfers |-> ResultTransfers(address, total, 1, <<>>).validation]

InitExpected ==
  /\ env = NoEnv
  /\ limit = 1
  /\ mode \in TransferModes
  /\ rows = <<>>
  /\ pc = "expected"
  /\ NothingRun
  /\ \E csv \in { <<o, t>> : o \in OwnerTables, t \in TransferTables } :
       /\ expectedData = loadExpectedData(csv)
       /\ fnArgs \in { Some([csv |-> csv, address |-> a, holders |-> h, total |-> n]) :
                         a \in Spellings, h \in HolderSets, n \in TransferTotals }
  /\ fnResult = None

ApplyExpected ==
  /\ pc = "expected"
  /\ fnResult = None
  /\ fnResult' = Some(validationsOf(Get(fnArgs).address, Get(fnArgs).holders,
                                    Get(fnArgs).total))
  /\ UNCHANGED <<config, pc, idx, allResults, ret, page, totalItems, pages, perPage,
                 items, hasNext, meta, ownerCounts, erc20Locals, hist, debugDumps,
                 lookups, inflight, runHistory, fetched, fnArgs>>

NextExpected == ApplyExpected

SpecExpected == InitExpected /\ [][NextExpected]_vars

(***************************************************************************)
(* main(): the page size computed from the --limit argument, applied on    *)
(* its own to bounded argument texts.                                      *)
(***************************************************************************)
\* a JavaScript number of this computation: an integer, or NaN
NaN == [nan |-> TRUE, value |-> 0]
Num(n) == [nan |-> FALSE, value |-> n]
\* Number(text): white space is trimmed, the empty text is 0, a decimal integer
\* with an optional sign and an unsigned 0x, 0o or 0b literal are their value;
\* the other texts drawn here are not numeric
NumberOf(s) ==
  LET t == trim(s) IN
  IF Len(t) = 0 THEN Num(0)
  ELSE IF IsRadixLiteral(t) THEN Num(RadixValue(t, 3, RadixOf(t), 0))
  ELSE IF ~IsSignedDecimal(t) THEN NaN
  ELSE IF t[1] = "-" THEN Num(0 - parseInt(Tail(t)))
  ELSE IF t[1] = "+" THEN Num(parseInt(Tail(t)))
  ELSE Num(parseInt(t))
\* Math.min and Math.max: NaN when an argument is NaN
MathMin(a, b) == IF a.nan \/ b.nan THEN NaN ELSE IF a.value <= b.value THEN a ELSE b
MathMax(a, b) == IF a.nan \/ b.nan THEN NaN ELSE IF a.value >= b.value THEN a ELSE b

MinLimit == 1
MaxLimit == 1000
DefaultLimitText == <<"1", "0", "0", "0">>

\* faulty variant of limitOf: no lower clamp
limitOf_NoFloor(arg) ==
  MathMin(Num(MaxLimit), NumberOf(IF IsSome(arg) THEN Get(arg) ELSE DefaultLimitText))

\* Math.max(1, Math.min(1000, Number(args.limit ?? '1000')))
limitOf(arg) ==
  MathMax(Num(MinLimit),
          MathMin(Num(MaxLimit), NumberOf(IF IsSome(arg) THEN Get(arg) ELSE DefaultLimitText)))

\* args.limit: absent, or the text parseArgs stored: integers with and without
\* a sign, the empty text (--limit=), "true" (a bare --limit) and other texts
LimitDigitTexts == SeqsUpTo({"0", "1", "9"}, 4) \ {<<>>}
LimitTexts ==
  LimitDigitTexts
    \cup { <<"-">> \o t : t \in LimitDigitTexts }
    \cup { <<"+">> \o t : t \in LimitDigitTexts }
    \cup { <<>>, <<"5", "0", "0">>, <<" ", "5", " ">>, <<"0", "x", "1", "0">>,
           <<"t", "r", "u", "e">>, <<"a", "b", "c">>, <<"-">> }
LimitArgs == {None} \cup { Some(t) : t \in LimitTexts }

InitLimit ==
  /\ env = NoEnv
  /\ limit = 1
  /\ mode = "initial"
  /\ rows = <<>>
  /\ expectedData = loadExpectedData(<< <<>>, <<>> >>)
  /\ pc = "limit"
  /\ NothingRun
  /\ fnArgs \in { Some(a) : a \in LimitArgs }
  /\ fnResult = None

ApplyLimit ==
  /\ pc = "limit"
  /\ fnResult = None
  /\ fnResult' = Some(limitOf(Get(fnArgs)))
  /\ UNCHANGED <<config, pc, idx, allResults, ret, page, totalItems, pages, perPage,
                 items, hasNext, meta, ownerCounts, erc20Locals, hist, debugDumps,
                 lookups, inflight, runHistory, fetched, fnArgs>>

NextLimit == ApplyLimit

SpecLimit == InitLimit /\ [][NextLimit]_vars

(***************************************************************************)
(* Properties.                                                             *)
(***************************************************************************)
DriverPcs == {"owners721", "owners20", "transfers"}
\* the running driver has completed at least one loop iteration; items, hasNext
\* and meta are those of its last page, perPage[pages] is that page's entry
PageDone == pages > 0 /\ pc \in DriverPcs \cup {"returned"}
\* the endpoint of the driver that is running or has just returned
DriverEndpoint ==
  IF pc = "returned" THEN Get(ret).endpoint
  ELSE IF pc = "owners721" THEN "/nfts/owners/{address}"
  ELSE IF pc \in {"owners20", "tokens"} THEN "/tokens/owners"
  ELSE IF pc = "transfers" THEN "/nfts/transfers"
  ELSE "none"
OwnersEndpoints == {"/nfts/owners/{address}", "/tokens/owners"}
\* the last page's metadata says page < total_pages - 1
MetaDeclaresMore ==
  /\ IsSome(meta)
  /\ IsSome(Get(meta).page)
  /\ IsSome(Get(meta).total_pages)
  /\ Get(Get(meta).page) < Get(Get(meta).total_pages) - 1
\* the last page's metadata says page >= total_pages - 1
MetaDeclaresLast ==
  /\ IsSome(meta)
  /\ IsSome(Get(meta).page)
  /\ IsSome(Get(meta).total_pages)
  /\ Get(Get(meta).page) >= Get(Get(meta).total_pages) - 1
AllEarlierPagesFull == \A k \in 1..(pages - 1) : perPage[k].items = limit
\* after full pages: a full page is followed by the request of the next index,
\* a short page by the driver's return with that many pages
StopsExactlyAtShortPage ==
  /\ perPage[pages].items = limit => (pc \in DriverPcs /\ page = pages)
  /\ perPage[pages].items < limit =>
       (pc = "returned" /\ Get(ret).pages = pages /\ Len(Get(ret).perPage) = pages)

C2_ZeroItemsStops ==
  (PageDone /\ perPage[pages].items = 0) => pc = "returned"

\* C2 witness: a driver returned on an empty page whose metadata declared more pages
C2_Witness ==
  /\ pc = "returned"
  /\ perPage[pages].items = 0
  /\ MetaDeclaresMore
  /\ hasNext

\* C3 as claimed: when a driver's loop ends normally, its last page had zero
\* items, or fewer than `limit` items, or metadata with page >= total_pages - 1.
C3_AsClaimed ==
  pc = "returned" =>
    \/ perPage[pages].items = 0
    \/ perPage[pages].items < limit
    \/ MetaDeclaresLast

\* C3 as amended: when a driver's loop ends normally, its last page had zero
\* items, or an item count different from `limit` (fewer or more), or metadata
\* for which page < total_pages - 1 does not hold.
C3_EndsOnlyOnStopSignal ==
  pc = "returned" =>
    \/ perPage[pages].items = 0
    \/ perPage[pages].items # limit
    \/ (IsSome(meta) /\ ~MetaDeclaresMore)

\* C3 witness: the transfers driver ended on a full page because of its metadata
C3_Witness ==
  /\ pc = "returned"
  /\ Get(ret).endpoint = "/nfts/transfers"
  /\ perPage[pages].items = limit
  /\ IsSome(meta)
  /\ ~MetaDeclaresMore

\* C4: with at least one item and metadata present the driver requests another
\* page exactly when page < total_pages - 1; without metadata it requests
\* another page exactly when the item count equals `limit`.
C4_MetadataWins ==
  PageDone =>
    /\ (perPage[pages].items >= 1 /\ IsSome(meta)) => (pc \in DriverPcs <=> MetaDeclaresMore)
    /\ ~IsSome(meta) => (pc \in DriverPcs <=> perPage[pages].items = limit)

\* C4 witness: the transfers driver goes on after a short page whose metadata
\* declares more pages
C4_Witness ==
  /\ pc = "transfers"
  /\ pages = 1
  /\ page = 1
  /\ perPage[1].items >= 1
  /\ perPage[1].items < limit
  /\ MetaDeclaresMore

\* the positions in hist of the records of lower-cased address a
Occurrences(a) == { i \in 1..Len(hist) : toLowerCase(hist[i].owner_address) = a }
\* the distinct lower-cased addresses of the records accumulated so far
DistinctOwners == { toLowerCase(hist[i].owner_address) : i \in 1..Len(hist) }
\* the token amount a record's balance converts to (a missing balance is "0")
Converted(h) ==
  weiToTokens(IF IsSome(h.balance) THEN Get(h.balance) ELSE <<"0">>, h.decimals)
\* the duplicate-log entries of address a
LogFor(a) == SelectSeq(duplicateLog, LAMBDA e : e.address = a)
InErc20Owners == pc \in {"owners20", "tokens"} \/ (pc = "returned" /\ DriverEndpoint = "/tokens/owners")
InErc721Owners == pc = "owners721" \/ (pc = "returned" /\ DriverEndpoint = "/nfts/owners/{address}")

\* C5: in the ERC20 owners driver, an address that occurs on two pages, with
\* balances B1 then B2, ends with the converted B2 as its value and with exactly
\* one duplicate-log entry, holding the converted B1, the converted B2 and the
\* page index of the second occurrence.
C5_LastWriteWins ==
  InErc20Owners =>
    \A a \in DistinctOwners : \A i, j \in Occurrences(a) :
      (Occurrences(a) = {i, j} /\ hist[i].page < hist[j].page) =>
        /\ a \in DOMAIN holderBalances
        /\ holderBalances[a] = Converted(hist[j])
        /\ LogFor(a) = << [address |-> a, page |-> hist[j].page,
                           existingBalance |-> Converted(hist[i]),
                           newBalance |-> Converted(hist[j])] >>

\* C5 witness: the ERC20 driver returned after an address came on page 0 and,
\* spelled differently and with another balance, on page 1
C5_Witness ==
  /\ pc = "returned"
  /\ DriverEndpoint = "/tokens/owners"
  /\ \E i, j \in 1..Len(hist) :
       /\ Occurrences("0xa") = {i, j}
       /\ hist[i].page = 0
       /\ hist[j].page = 1
       /\ hist[i].owner_address # hist[j].owner_address
       /\ Converted(hist[i]) # Converted(hist[j])
       /\ Len(duplicateLog) = 1

\* the number a record contributes to its owner's count
BalanceValue(h) == IF IsSome(h.balance) THEN parseInt(Get(h.balance)) ELSE 1
RECURSIVE SumOfBalances(_, _)
SumOfBalances(a, i) ==
  IF i > Len(hist) THEN 0
  ELSE (IF toLowerCase(hist[i].owner_address) = a THEN BalanceValue(hist[i]) ELSE 0)
       + SumOfBalances(a, i + 1)

\* C6: in the ERC721 owners driver the count stored for an address is the sum of
\* the balances of all records of that lower-cased address on the pages fetched,
\* a record without balance counting 1.
C6_CountsAreSums ==
  InErc721Owners =>
    /\ DOMAIN ownerCounts = DistinctOwners
    /\ \A a \in DOMAIN ownerCounts : ownerCounts[a] = SumOfBalances(a, 1)

\* C6 witness: records with balances 2 and 3 of one address gave the count 5
C6_Witness ==
  /\ pc = "returned"
  /\ DriverEndpoint = "/nfts/owners/{address}"
  /\ \E i, j \in 1..Len(hist) :
       /\ Occurrences("0xa") = {i, j}
       /\ i # j
       /\ hist[i].balance = Some(<<"2">>)
       /\ hist[j].balance = Some(<<"3">>)
  /\ ownerCounts["0xa"] = 5
  /\ "0xb" \in DOMAIN ownerCounts
  /\ ownerCounts["0xb"] = 1

\* the accumulation map of the owners driver that is running or has returned
AccumulationMap == IF InErc20Owners THEN holderBalances ELSE ownerCounts

\* C7: in both owners drivers the size of the accumulation map is the number of
\* distinct lower-cased owner addresses of the records accumulated so far, and
\* the returned totalItems is that size.
C7_SizeIsDistinctAddresses ==
  (InErc20Owners \/ InErc721Owners) =>
    /\ Cardinality(DOMAIN AccumulationMap) = Cardinality(DistinctOwners)
    /\ pc = "returned" => Get(ret).totalItems = Cardinality(DistinctOwners)

\* C7 witness: an owners driver returned one holder after records that spell the
\* address in two ways, on more raw records than holders
C7_Witness ==
  /\ pc = "returned"
  /\ DriverEndpoint \in OwnersEndpoints
  /\ { hist[i].owner_address : i \in 1..Len(hist) } = {"0xa", "0xA"}
  /\ Get(ret).totalItems = 1
  /\ totalItems > 1
  /\ pages = 2

\* C8: in both owners drivers a validation outcome's `actual` is the number of
\* distinct addresses (the size of the accumulation map), whatever the raw
\* number of records is.
C8_ValidatesDistinctCount ==
  (pc = "returned" /\ DriverEndpoint \in OwnersEndpoints /\ IsSome(Get(ret).validation)) =>
    /\ Get(Get(ret).validation).actual = Cardinality(DOMAIN AccumulationMap)
    /\ Get(Get(ret).validation).actual = Cardinality(DistinctOwners)

\* C8 witness: a validation passed on the distinct count although the pages held
\* more raw records
C8_Witness ==
  /\ pc = "returned"
  /\ DriverEndpoint \in OwnersEndpoints
  /\ IsSome(Get(ret).validation)
  /\ Get(Get(ret).validation).isValid
  /\ totalItems > Get(Get(ret).validation).actual
  /\ Len(hist) > Cardinality(DistinctOwners)

\* the results produced so far
ResultsSoFar == { allResults[i] : i \in 1..Len(allResults) } \cup { ret[i] : i \in 1..Len(ret) }
\* the expected-count table a result is validated against
TableOf(r) ==
  IF r.endpoint = "/nfts/transfers" THEN expectedData.nftTransfers ELSE expectedData.tokenOwners

\* C9: a result carries a validation outcome if and only if the relevant table
\* has an entry for the lower-cased contract address and, for transfers, the
\* mode is full-history.
C9_ValidationIffExpected ==
  \A r \in ResultsSoFar :
    IsSome(r.validation) <=>
      /\ toLowerCase(r.contract) \in DOMAIN TableOf(r)
      /\ r.endpoint = "/nfts/transfers" => mode = "initial"

\* C9 witness: in full-history mode a target without table entries produced both
\* its results, neither with a validation
C9_Witness ==
  /\ mode = "initial"
  /\ Len(allResults) = 2
  /\ allResults[2].endpoint = "/nfts/transfers"
  /\ toLowerCase(allResults[1].contract) \notin DOMAIN expectedData.tokenOwners
  /\ toLowerCase(allResults[2].contract) \notin DOMAIN expectedData.nftTransfers
  /\ ~IsSome(allResults[1].validation)
  /\ ~IsSome(allResults[2].validation)

\* C10: validateCount(expected, actual) returns isValid exactly when actual
\* equals expected, difference = actual - expected, and both inputs unchanged.
C10_ValidateCount ==
  (pc = "validateCount" /\ IsSome(fnResult)) =>
    LET expected == Get(fnArgs)[1]
        actual == Get(fnArgs)[2]
        v == Get(fnResult)
    IN /\ v.isValid = (actual = expected)
       /\ v.difference = actual - expected
       /\ v.expected = expected
       /\ v.actual = actual
       /\ (expected = 100 /\ actual = 100) => (v.isValid /\ v.difference = 0)
       /\ (expected = 100 /\ actual = 97) => (~v.isValid /\ v.difference = -3)

\* C10 witness: validateCount(100, 97) has been applied
C10_Witness ==
  /\ pc = "validateCount"
  /\ fnArgs = Some(<<100, 97>>)
  /\ IsSome(fnResult)
  /\ Get(fnResult).difference = -3

\* the transfers results produced so far
TransfersResults == { r \in ResultsSoFar : r.endpoint = "/nfts/transfers" }

\* C11: a transfers result produced in recent-window (incremental) mode carries
\* no validation outcome, also when the expected-transfer table has the contract;
\* a transfers result with a validation outcome exists only in full-history mode.
C11_NoValidationInIncremental ==
  /\ mode = "incremental" => \A r \in TransfersResults : ~IsSome(r.validation)
  /\ (\E r \in TransfersResults : IsSome(r.validation)) => mode = "initial"

\* C11 witness: in incremental mode a transfers result of a contract that the
\* expected-transfer table has, with exactly the expected number of transfers,
\* was pushed without a validation outcome
C11_Witness ==
  /\ mode = "incremental"
  /\ Len(allResults) = 2
  /\ allResults[2].endpoint = "/nfts/transfers"
  /\ toLowerCase(allResults[2].contract) \in DOMAIN expectedData.nftTransfers
  /\ allResults[2].totalItems = expectedData.nftTransfers[toLowerCase(allResults[2].contract)]
  /\ ~IsSome(allResults[2].validation)

\* the position of the first "." of a text, 0 when it has none
RECURSIVE IndexOfDot(_, _)
IndexOfDot(s, i) == IF i > Len(s) THEN 0 ELSE IF s[i] = "." THEN i ELSE IndexOfDot(s, i + 1)
\* a text of n zeros
Zeros(n) == [i \in 1..n |-> "0"]
\* the whole part and the fraction of a converted amount
WholePart(r) == IF IndexOfDot(r, 1) = 0 THEN r ELSE SubSeq(r, 1, IndexOfDot(r, 1) - 1)
FractionPart(r) == IF IndexOfDot(r, 1) = 0 THEN <<>> ELSE SubSeq(r, IndexOfDot(r, 1) + 1, Len(r))
\* whole.fraction is exactly w base units of d decimals: the digits of the whole
\* part followed by the fraction filled with zeros to d digits are the digits of w
ExactAmount(r, w, d) ==
  /\ IsDecimalDigits(WholePart(r))
  /\ WholePart(r) = stripLeadingZeros(WholePart(r))
  /\ Len(FractionPart(r)) <= d
  /\ \A i \in 1..Len(FractionPart(r)) : IsDigit(FractionPart(r)[i])
  /\ stripLeadingZeros(WholePart(r) \o FractionPart(r) \o Zeros(d - Len(FractionPart(r))))
       = stripLeadingZeros(w)
\* the fraction is written only when the remainder is not zero, without
\* trailing zeros
ShortestFraction(r) ==
  /\ IndexOfDot(r, 1) > 0 => Len(FractionPart(r)) > 0
  /\ Len(FractionPart(r)) > 0 => FractionPart(r)[Len(FractionPart(r))] # "0"
WeiApplied == pc = "weiToTokens" /\ IsSome(fnResult)

\* C12: for a text w of decimal digits and d >= 0 decimals, weiToTokens(w, d) is
\* the whole part floor(w / 10^d) alone when the remainder is zero and otherwise
\* whole.fraction, the fraction being the remainder padded with zeros on the left
\* to d digits and without trailing zeros; the amount is exact. 1.5 * 10^18 with
\* 18 gives 1.5, 1 with 18 gives 0.000000000000000001, 10^18 with 18 gives 1.
C12_WeiToTokensExact ==
  (WeiApplied /\ IsDecimalDigits(Get(fnArgs)[1]) /\ Get(fnArgs)[2] >= 0) =>
    LET w == Get(fnArgs)[1]
        d == Get(fnArgs)[2]
        r == Get(fnResult)
    IN /\ ExactAmount(r, w, d)
       /\ ShortestFraction(r)
       /\ (w = WeiOneAndAHalf /\ d = 18) => r = <<"1", ".", "5">>
       /\ (w = WeiSmallest /\ d = 18) => r = <<"0", ".">> \o Zeros(17) \o <<"1">>
       /\ (w = WeiOne /\ d = 18) => r = <<"1">>

\* C12 witness: 1500000000000000000 base units of 18 decimals were converted
C12_Witness ==
  /\ WeiApplied
  /\ Get(fnArgs) = <<WeiOneAndAHalf, 18>>
  /\ Get(fnResult) = <<"1", ".", "5">>

\* C13 as claimed: for every text that is not an unsigned decimal integer (the
\* empty text, a negative number, text that is not digits, a hex literal, digits
\* within white space) weiToTokens returns the text it was given, unchanged.
C13_AsClaimed ==
  (WeiApplied /\ ~IsDecimalDigits(Get(fnArgs)[1])) => Get(fnResult) = Get(fnArgs)[1]

\* C14: when a response has none of the shapes the driver recognises (the driver
\* dumps it with debugApiResponse), the page counts zero items, no record of it
\* reaches the accumulation map, it is entered once in the page history, no
\* further page is requested and the driver returns a result.
C14_UnrecognisedShapeEnds ==
  (PageDone /\ debugDumps > 0) =>
    /\ debugDumps = 1
    /\ items = 0
    /\ Len(perPage) = pages
    /\ pages = page + 1
    /\ perPage[pages] = [page |-> page + 1, items |-> 0]
    /\ \A i \in 1..Len(hist) : hist[i].page # page
    /\ DriverEndpoint \in OwnersEndpoints => DOMAIN AccumulationMap = DistinctOwners
    /\ pc = "returned"
    /\ inflight = {}
    /\ IsSome(ret)
    /\ Get(ret).pages = pages
    /\ Get(ret).perPage = perPage

\* C14 witness: the ERC721 owners driver returned one owner after a full page and
\* a second page of the transfers shape whose metadata declared more pages
C14_Witness ==
  /\ pc = "returned"
  /\ DriverEndpoint = "/nfts/owners/{address}"
  /\ debugDumps = 1
  /\ pages = 2
  /\ perPage[1].items = limit
  /\ perPage[2].items = 0
  /\ MetaDeclaresMore
  /\ hasNext
  /\ Cardinality(DOMAIN ownerCounts) = 1
  /\ Get(ret).totalItems = 1

\* the rows whose processing ended: with a result of each endpoint, or in the catch
RowsWithResult == { resultRows[k] : k \in 1..Len(resultRows) }
RowsFailed == { f.row : f \in failed }
\* the results pushed for row j
ResultsOfRow(j) == { k \in 1..Len(allResults) : resultRows[k] = j }

\* C15: a failed page fetch of a target does not end the run: the loop goes on
\* with the next row, every row after the failing one is processed (it ends
\* with a result or in the catch itself), and the run ends with the summary,
\* never with process.exit.
C15_FailureDoesNotAbortRun ==
  failed # {} =>
    /\ pc # "exit"
    /\ \A f \in failed : f.row < idx
    /\ \A j \in 1..(idx - 1) : j \in RowsWithResult \cup RowsFailed
    /\ \A j \in 1..Len(rows) : (j < idx /\ j \notin RowsFailed) =>
         \E k \in ResultsOfRow(j) :
           allResults[k].endpoint = (IF rows[j].type = "erc721" THEN "/nfts/transfers"
                                     ELSE "/tokens/owners")
    /\ pc = "done" => (idx = Len(rows) + 1 /\ IsSome(summaryMetrics))
    /\ pc # "done" => idx <= Len(rows) + 1

\* C15 witness: the first target's fetch failed, the second target was then
\* benchmarked to a result, and the summary was reached
C15_Witness ==
  /\ pc = "done"
  /\ RowsFailed = {1}
  /\ RowsWithResult = {2}
  /\ IsSome(summaryMetrics)
  /\ Get(summaryMetrics).totalQueries >= 1

\* the pages fetched by the fetches that failed
RECURSIVE FailedPages(_)
FailedPages(fs) ==
  IF fs = {} THEN 0 ELSE LET f == CHOOSE x \in fs : TRUE IN f.pages + FailedPages(fs \ {f})

NonBlank(v) == IsSome(v) /\ \E i \in 1..Len(Get(v)) : Get(v)[i] \notin WhiteSpace

\* C17: when neither X_CLIENT_ID nor X_CLIENT_ID_HEADER is set to a non-blank
\* value, the run ends in process.exit before the rows loop: no request is ever
\* outstanding, no page is fetched and no result or summary is produced.
C17_NoClientIdAborts ==
  (~NonBlank(env.X_CLIENT_ID) /\ ~NonBlank(env.X_CLIENT_ID_HEADER)) =>
    /\ pc \in {"start", "exit"}
    /\ inflight = {}
    /\ fetched = 0
    /\ allResults = <<>>
    /\ ~IsSome(ret)
    /\ ~IsSome(summaryMetrics)
    /\ idx = 1

\* C17 witness: the run exited with X_CLIENT_ID unset and X_CLIENT_ID_HEADER blank
C17_Witness ==
  /\ pc = "exit"
  /\ env.X_CLIENT_ID = None
  /\ env.X_CLIENT_ID_HEADER = Some(<<" ">>)
  /\ Len(rows) > 0
  /\ inflight = {}
  /\ allResults = <<>>

\* the holder address of the first record with an owner that the fetch has seen
FirstHolder ==
  IF Len(hist) > 0 THEN toLowerCase(hist[1].owner_address)
  ELSE IF Len(lookups) > 0 THEN lookups[1].probe
  ELSE "none"

\* C18 as claimed: in one ERC20 owners fetch GET /tokens is issued at most once,
\* while page 0 is processed, with the first observed holder address as probe,
\* whatever the lookup returned.
C18_AsClaimed ==
  InErc20Owners =>
    /\ Len(lookups) <= 1
    /\ \A k \in 1..Len(lookups) : lookups[k].page = 0 /\ lookups[k].probe = FirstHolder

\* a decimals lookup of the running ERC20 owners fetch has failed
LookupFailed == \E k \in 1..Len(lookups) : lookups[k].outcome = "failed"
\* the last record of holder a that the fetch has accumulated
LastOf(a) == hist[CHOOSE i \in Occurrences(a) : \A j \in Occurrences(a) : j <= i]

\* C19: when a decimals lookup fails, the ERC20 owners fetch goes on: the failed
\* lookup is the last one (no retry), every balance of the fetch is converted
\* with 18 decimals, and the driver keeps paginating or has returned its result.
C19_LookupFailureDefaults ==
  (InErc20Owners /\ LookupFailed) =>
    /\ lookups[Len(lookups)].outcome = "failed"
    /\ \A k \in 1..(Len(lookups) - 1) : lookups[k].outcome = "nodecimals"
    /\ pc \in {"owners20", "returned"}
    /\ decimalsFound
    /\ tokenDecimals = 18
    /\ \A i \in 1..Len(hist) : hist[i].decimals = 18
    /\ \A a \in DOMAIN holderBalances :
         holderBalances[a] =
           weiToTokens(IF IsSome(LastOf(a).balance) THEN Get(LastOf(a).balance) ELSE <<"0">>, 18)
    /\ pc = "returned" => (Get(ret).pages = pages /\ Get(ret).totalItems = Cardinality(DistinctOwners))

\* C19 witness: the only lookup failed on page 0, the fetch went on to page 1 and
\* returned two holders whose balances were converted with 18 decimals
C19_Witness ==
  /\ pc = "returned"
  /\ DriverEndpoint = "/tokens/owners"
  /\ Len(lookups) = 1
  /\ lookups[1].outcome = "failed"
  /\ pages = 2
  /\ \E i \in 1..Len(hist) : hist[i].page = 1
  /\ DOMAIN holderBalances = {"0xa", "0xb"}
  /\ holderBalances["0xa"] = <<"0", ".">> \o Zeros(17) \o <<"2">>
  /\ holderBalances["0xb"] = <<"0">>

\* C20: at most one HTTP request is outstanding at any time. A page's request is
\* outstanding only when the responses of all earlier pages of the fetch have
\* been processed, a transfers request only after the owners result of the
\* target was pushed, and a request of a target only after every earlier target
\* has ended with its results or in the catch.
C20_OneRequestAtATime ==
  /\ Cardinality(inflight) <= 1
  /\ inflight # {} <=> pc \in {"owners721", "owners20", "tokens", "transfers"}
  /\ \A q \in inflight :
       /\ q.row = idx
       /\ q.page = page
       /\ q.path # "/tokens" => (pages = q.page /\ Len(perPage) = q.page /\ q.path = PathOf(pc))
       /\ q.path = "/tokens" => pc = "tokens"
       /\ q.path = "/nfts/transfers" =>
            \E k \in ResultsOfRow(q.row) : allResults[k].endpoint = "/nfts/owners/{address}"
       /\ \A j \in 1..(q.row - 1) : j \in RowsWithResult \cup RowsFailed

\* C20 witness: after the first target's fetch failed, the request of page 1 of
\* the second target is the only one outstanding
C20_Witness ==
  /\ RowsFailed = {1}
  /\ idx = 2
  /\ page = 1
  /\ pages = 1
  /\ inflight = {Request(2, PathOf(pc), 1)}

\* a fetch of the current target is in progress
Fetching == pc \in DriverPcs \cup {"tokens"}
\* the results appear in the order the targets are listed
InTargetOrder == \A k, l \in 1..Len(resultRows) : k < l => resultRows[k] <= resultRows[l]
\* the endpoints of the results pushed for row j, in the order of the list
EndpointsOfRow(j) ==
  LET Of(k) == resultRows[k] = j
      RECURSIVE Pick(_)
      Pick(k) == IF k > Len(allResults) THEN <<>>
                 ELSE (IF Of(k) THEN <<allResults[k].endpoint>> ELSE <<>>) \o Pick(k + 1)
  IN Pick(1)

SameAddress(a, b) == a = b \/ {a, b} = {"0xA", "0xa"}
\* the count a reference table gives for an address, whatever the letter case:
\* that of the last row of the address
ExpectedCountOf(csvRows, a) ==
  LET M == { i \in 1..Len(csvRows) : SameAddress(csvRows[i].contract, a) }
  IN IF M = {} THEN None
     ELSE Some(csvRows[CHOOSE i \in M : \A j \in M : j <= i].count)
\* the tables that differ from csvRows in the letter case of addresses only
Respellings(csvRows) ==
  { t \in [1..Len(csvRows) -> OwnerTableRows] :
      \A i \in 1..Len(csvRows) :
        SameAddress(t[i].contract, csvRows[i].contract) /\ t[i].count = csvRows[i].count }
\* validateCount against the count of a table, when the table has one
ValidationAgainst(expected, actual) ==
  IF IsSome(expected) THEN Some(validateCount(Get(expected), actual)) ELSE None
ExpectedApplied == pc = "expected" /\ IsSome(fnResult)

IntegerOf(t) ==
  IF t[1] = "-" THEN 0 - parseInt(Tail(t))
  ELSE IF t[1] = "+" THEN parseInt(Tail(t))
  ELSE parseInt(t)
LimitApplied == pc = "limit" /\ IsSome(fnResult)

\* C23: for every integer given as --limit the page size is a number of
\* 1..1000: the integer itself when it is in that range, 1 when it is below
\* and 1000 when it is above; without the argument the page size is 1000.
C23_LimitClamped ==
  LimitApplied =>
    LET arg == Get(fnArgs)
        r == Get(fnResult)
    IN /\ ~IsSome(arg) => r = Num(1000)
       /\ (IsSome(arg) /\ IsSignedDecimal(Get(arg))) =>
            LET n == IntegerOf(Get(arg)) IN
            /\ ~r.nan
            /\ r.value \in 1..1000
            /\ n \in 1..1000 => r.value = n
            /\ n < 1 => r.value = 1
            /\ n > 1000 => r.value = 1000

\* C23 witness: --limit -19 gives the page size 1
C23_Witness ==
  /\ LimitApplied
  /\ Get(fnArgs) = Some(<<"-", "1", "9">>)
  /\ Get(fnResult) = Num(1)

\* the requests of a set that ask for a page of an endpoint
PageRequests(requests) == { q \in requests : q.path # "/tokens" }
\* the page requests a step issues
IssuedByStep == PageRequests(inflight') \ PageRequests(inflight)

\* the outstanding page request asks for the index that follows the completed
\* requests, which were those of the indices 0 .. pages - 1 in that order
NextIndexOutstanding ==
  /\ \A q \in PageRequests(inflight) :
       /\ q.row = idx
       /\ q.page = page
       /\ q.page = pages
  /\ \A f \in failed : \A q \in inflight : q.row > f.row
  /\ pc \in DriverPcs \cup {"tokens", "returned"} =>
       /\ Len(perPage) = pages
       /\ \A k \in 1..Len(perPage) : perPage[k].page - 1 = k - 1

\* a step of a fetch requests page 0 when the fetch starts and the previous
\* index plus one afterwards, one request at most; the step of a failure
\* requests nothing and leaves the target
RequestsInOrder ==
  /\ Cardinality(IssuedByStep) <= 1
  /\ \A q \in IssuedByStep :
       IF pc \in {"main", "returned"}
       THEN q.page = 0 /\ q.row = idx' /\ page' = 0 /\ pages' = 0
       ELSE /\ pc \in DriverPcs \cup {"tokens"}
            /\ q.page = page + 1
            /\ q.row = idx
            /\ q.path = (IF pc = "tokens" THEN "/tokens/owners" ELSE PathOf(pc))
            /\ pages' = pages + 1
            /\ idx' = idx
  /\ failed' # failed =>
       /\ inflight' = {}
       /\ idx' = idx + 1
       /\ pc' = "main"

\* C24: within one endpoint fetch the page indices requested are 0, 1, 2, ...
\* in that order, each request following the completion of the previous one;
\* no index is requested twice, and after a failure no page of the fetch is
\* requested again.
C24_PagesRequestedInOrder == []NextIndexOutstanding /\ [][RequestsInOrder]_vars

\* C24 witness: the pages 0 and 1 of the transfers endpoint were fetched and
\* the request of page 2 is outstanding
C24_Witness ==
  /\ pc = "transfers"
  /\ page = 2
  /\ pages = 2
  /\ inflight = {Request(1, "/nfts/transfers", 2)}
  /\ perPage[1].page = 1
  /\ perPage[2].page = 2

\* the k-th entry of a page history has the display page number k
NumberedFromOne(timings) == \A k \in 1..Len(timings) : timings[k].page = k
\* pages, page history and totalItems of a result agree
ResultCountsAgree(r) ==
  /\ r.pages = Len(r.perPage)
  /\ NumberedFromOne(r.perPage)
  /\ r.endpoint = "/nfts/transfers" => r.totalItems = SumItems(r.perPage)

\* C25: between the loop iterations of a driver and in every returned result,
\* pages is the length of the page history and the number of page responses
\* the fetch has processed, the k-th history entry has the display page number
\* k (the request index plus one), and for transfers totalItems is the sum of
\* the item counts of the history.
C25_PagesMatchHistory ==
  /\ pc \in DriverPcs \cup {"tokens", "returned"} =>
       /\ pages = Len(perPage)
       /\ NumberedFromOne(perPage)
       /\ pages = fetched - SumResultPages(allResults) - FailedPages(failed)
       /\ pc \in DriverPcs \cup {"tokens"} => page = pages
       /\ pc = "returned" => page = pages - 1
       /\ (pc = "transfers" \/ (pc = "returned" /\ Get(ret).endpoint = "/nfts/transfers")) =>
            totalItems = SumItems(perPage)
  /\ pc = "returned" =>
       /\ ResultCountsAgree(Get(ret))
       /\ Get(ret).pages = pages
       /\ Get(ret).perPage = perPage
  /\ \A k \in 1..Len(allResults) : ResultCountsAgree(allResults[k])

\* C25 witness: a transfers fetch returned after a page of two items and a page
\* of one item: pages is 2, the history entries are numbered 1 and 2, and
\* totalItems is 3
C25_Witness ==
  /\ pc = "returned"
  /\ Get(ret).endpoint = "/nfts/transfers"
  /\ Get(ret).pages = 2
  /\ Get(ret).perPage = << [page |-> 1, items |-> 2], [page |-> 2, items |-> 1] >>
  /\ Get(ret).totalItems = 3
  /\ fetched > 2

\* the driver has requested the page that follows the pages fetched so far
RequestsNextPage ==
  /\ pc \in DriverPcs
  /\ page = pages
  /\ inflight = {Request(idx, PathOf(pc), pages)}
  /\ ~IsSome(ret)

RECURSIVE BalancesUpTo(_)
BalancesUpTo(n) ==
  IF n = 0 THEN EmptyMap
  ELSE MapSet(BalancesUpTo(n - 1), toLowerCase(hist[n].owner_address), Converted(hist[n]))
RECURSIVE LogUpTo(_)
LogUpTo(n) ==
  IF n = 0 THEN <<>>
  ELSE LET a == toLowerCase(hist[n].owner_address)
           before == BalancesUpTo(n - 1)
       IN IF a \in DOMAIN before
          THEN Append(LogUpTo(n - 1), [address |-> a, page |-> hist[n].page,
                                       existingBalance |-> before[a],
                                       newBalance |-> Converted(hist[n])])
          ELSE LogUpTo(n - 1)
\* the result that the target's row, the reference tables and the fetch's own
\* responses give
OwnResult ==
  LET e == DriverEndpoint
      n == IF e = "/nfts/transfers" THEN SumItems(perPage) ELSE Cardinality(DistinctOwners)
      table == IF e = "/nfts/transfers" THEN expectedData.nftTransfers
               ELSE expectedData.tokenOwners
  IN [contract |-> rows[idx].address,
      endpoint |-> e,
      totalItems |-> n,
      pages |-> Len(perPage),
      perPage |-> perPage,
      validation |-> IF e = "/nfts/transfers" /\ mode # "initial" THEN None
                     ELSE ValidationAgainst(Lookup(table, toLowerCase(rows[idx].address)), n)]
\* no response of the running fetch has been processed yet
FetchJustStarted == pc \in DriverPcs /\ fetched = SumResultPages(allResults) + FailedPages(failed)

\* C27: what a fetch computes depends on its own responses and the reference
\* tables only. Whatever the earlier targets returned and whether they failed,
\* a fetch starts from empty maps, an empty duplicate log, an empty page
\* history and the default decimals; its maps and its duplicate log are at
\* every point those its own records give, and the result it returns is the
\* one its own responses give.
C27_ResultFromOwnResponses ==
  /\ FetchJustStarted =>
       /\ ownerCounts = EmptyMap
       /\ holderBalances = EmptyMap
       /\ duplicateLog = <<>>
       /\ perPage = <<>>
       /\ page = 0 /\ pages = 0 /\ totalItems = 0
       /\ tokenDecimals = DefaultDecimals /\ ~decimalsFound
  /\ InErc20Owners =>
       /\ holderBalances = BalancesUpTo(Len(hist))
       /\ duplicateLog = LogUpTo(Len(hist))
  /\ InErc721Owners =>
       /\ DOMAIN ownerCounts = DistinctOwners
       /\ \A a \in DistinctOwners : ownerCounts[a] = SumOfBalances(a, 1)
  /\ pc \in DriverPcs \cup {"tokens", "returned"} =>
       Len(perPage) = fetched - SumResultPages(allResults) - FailedPages(failed)
  /\ pc = "returned" => Get(ret) = OwnResult

\* C27 witness: the second target, an ERC20 one, returned one holder after two
\* pages, after the first target, an ERC20 one as well, had returned a result
\* with a holder and a validation
C27_Witness ==
  /\ pc = "returned"
  /\ idx = 2
  /\ Len(allResults) = 1
  /\ allResults[1].endpoint = "/tokens/owners"
  /\ allResults[1].totalItems = 1
  /\ IsSome(allResults[1].validation)
  /\ Get(ret).endpoint = "/tokens/owners"
  /\ Get(ret).totalItems = 1
  /\ Get(ret).pages = 2
  /\ DOMAIN holderBalances = {"0xb"}
  /\ duplicateLog = <<>>

\* C28: in the ERC20 owners driver the number of records with an owner address
\* processed so far is the size of the holder map plus the length of the
\* duplicate log; every address has one log entry for each of its occurrences
\* after the first, and the log is empty exactly when the addresses processed
\* were all distinct.
C28_RecordsAreHoldersPlusDuplicates ==
  InErc20Owners =>
    /\ Len(hist) = Cardinality(DOMAIN holderBalances) + Len(duplicateLog)
    /\ \A a \in DistinctOwners : Len(LogFor(a)) = Cardinality(Occurrences(a)) - 1
    /\ \A k \in 1..Len(duplicateLog) : duplicateLog[k].address \in DistinctOwners
    /\ duplicateLog = <<>> <=> Cardinality(DistinctOwners) = Len(hist)

\* C28 witness: three records of one address, two on page 0 and one on page 1,
\* gave one holder and two log entries, one of each page
C28_Witness ==
  /\ pc = "returned"
  /\ DriverEndpoint = "/tokens/owners"
  /\ Len(hist) = 3
  /\ DOMAIN holderBalances = {"0xa"}
  /\ Len(duplicateLog) = 2
  /\ duplicateLog[1].page = 0
  /\ duplicateLog[2].page = 1

\* C29 as claimed: in one ERC20 owners fetch every record is converted with the
\* decimals count used for the first converted record, and the count reported
\* in the holder listing of the returned fetch is that count.
C29_AsClaimed ==
  (InErc20Owners /\ Len(hist) > 0) =>
    /\ \A i \in 1..Len(hist) : hist[i].decimals = hist[1].decimals
    /\ pc = "returned" => tokenDecimals = hist[1].decimals

\* the endpoints requested for a target of each type
EndpointsOfType(type) ==
  IF type = "erc721" THEN {"/nfts/owners/{address}", "/nfts/transfers"}
  ELSE {"/tokens/owners", "/tokens"}
\* the owners fetch of row j was paginated to completion: its result is in the list
OwnersCompleted(j) ==
  \E k \in ResultsOfRow(j) : allResults[k].endpoint = "/nfts/owners/{address}"
\* the owners fetch of row j failed
OwnersFailed(j) == \E f \in failed : f.row = j /\ f.endpoint = "/nfts/owners/{address}"

\* an outstanding request is of the current target and of an endpoint of the
\* target's type; a transfers request or result exists only for a target whose
\* owners fetch was completed and did not fail
DispatchedByType ==
  /\ \A q \in inflight :
       /\ q.row = idx
       /\ q.path \in EndpointsOfType(rows[q.row].type)
       /\ q.path = "/nfts/transfers" => (OwnersCompleted(q.row) /\ ~OwnersFailed(q.row))
       /\ q.path = "/nfts/owners/{address}" => ~OwnersCompleted(q.row)
  /\ \A k \in 1..Len(allResults) :
       /\ allResults[k].endpoint \in EndpointsOfType(rows[resultRows[k]].type)
       /\ allResults[k].endpoint = "/nfts/transfers" =>
            (OwnersCompleted(resultRows[k]) /\ ~OwnersFailed(resultRows[k]))
  /\ \A f \in failed :
       /\ f.row < idx
       /\ f.endpoint \in EndpointsOfType(rows[f.row].type)
       /\ f.endpoint = "/nfts/owners/{address}" => ResultsOfRow(f.row) = {}

\* the first transfers request is issued by the step that pushes the owners
\* result, for the same target; the step of a failure issues no request
TransfersFollowOwners ==
  /\ \A q \in IssuedByStep :
       (q.path = "/nfts/transfers" /\ q.page = 0) =>
         /\ pc = "returned"
         /\ Get(ret).endpoint = "/nfts/owners/{address}"
         /\ q.row = idx
         /\ idx' = idx
         /\ rows[idx].type = "erc721"
  /\ \A q \in IssuedByStep :
       q.page = 0 /\ q.path # "/nfts/transfers" =>
         /\ pc = "main"
         /\ q.path = (IF rows[idx].type = "erc721" THEN "/nfts/owners/{address}"
                      ELSE "/tokens/owners")
  /\ failed' # failed => IssuedByStep = {}

\* C30: for an ERC721 target the owners endpoint is paginated to completion
\* before the first transfers request is issued, and after a failed owners
\* fetch no transfers request is made for the target; for an ERC20 target only
\* /tokens/owners and the decimals lookup are requested.
C30_DispatchOrder == []DispatchedByType /\ [][TransfersFollowOwners]_vars

\* C30 witness: the owners fetch of the first target, an ERC721 one, failed
\* after one page; the run ended without a transfers request or result for it,
\* with the result of the second target, an ERC20 one
C30_Witness ==
  /\ pc = "done"
  /\ rows[1].type = "erc721"
  /\ failed = {[row |-> 1, endpoint |-> "/nfts/owners/{address}", pages |-> 1]}
  /\ Len(allResults) = 1
  /\ resultRows = <<2>>
  /\ allResults[1].endpoint = "/tokens/owners"
  /\ fetched = 1 + allResults[1].pages
====
